---- MODULE Spec2Model ----
(***************************************************************************)
(* Model of src/timeGAN/timeGAN_opt_seq_len_MonthlyMilkProduction.py:      *)
(* one process runs run_TimeGAN (optuna optimization loop calling          *)
(* objective once per trial, then the final generation step).  The optuna  *)
(* study (<database_name>.db), the checkpoint (<database_name>.gz), the    *)
(* performance file and fake_data_<database_name>.csv live on disk and     *)
(* outlive the process; best_scores, the attributes of objective and all   *)
(* locals live in the process.                                             *)
(*                                                                         *)
(* Python None / "attribute not set" / "file absent" is <<>>; a present    *)
(* value v is <<v>>.                                                       *)
(***************************************************************************)
EXTENDS Integers, Sequences, FiniteSets, TLC

\* ------------------------------------------------------------- bounds
\* largest n_trials an invocation is given in Spec
MaxTrials == 2
\* the scorer's value is an integer 0..MaxScore (a similarity in [0, 1],
\* in units of 1/MaxScore)
MaxScore == 2
\* number of columns of the loaded dataset
MaxColumns == 2
\* number of processes started one after the other in SpecResume
MaxRuns == 3

\* ------------------------------------------------- program constants
\* objective: "if trial.number == 60"
StopTrial == 60
\* argparse defaults
DefaultNumSamples == 500
DefaultNTrials == 60

\* the domains the hyperparameters are suggested from (lines 70-75)
Modules == <<"gru", "lstm", "lstmLN">>
HiddenDims == <<6, 12, 24, 48>>
BatchSizes == <<2, 4, 8>>
NumLayers == 3..6
Iterations == <<100, 1000, 10000>>
SeqLens == <<1, 5, 10>>

Range(s) == {s[i] : i \in DOMAIN s}

Max(S) == CHOOSE x \in S : \A y \in S : y <= x

\* ------------------------------------------------------------ inputs
\* what the optuna sampler may answer to the six suggest calls of a trial:
\* every seq_len occurs, every domain is used at both ends, and two of the
\* answers differ in nothing but seq_len
Suggestions ==
    { [module |-> "gru", hidden_dim |-> 6, batch_size |-> 2, num_layer |-> 3,
       iterations |-> 100, seq_len |-> 1],
      [module |-> "lstm", hidden_dim |-> 12, batch_size |-> 4, num_layer |-> 4,
       iterations |-> 1000, seq_len |-> 5],
      [module |-> "lstmLN", hidden_dim |-> 48, batch_size |-> 8, num_layer |-> 6,
       iterations |-> 10000, seq_len |-> 10],
      [module |-> "gru", hidden_dim |-> 6, batch_size |-> 2, num_layer |-> 3,
       iterations |-> 100, seq_len |-> 10] }

\* the values the scorer may return
Scores == 0..MaxScore

\* number of windows cut_data may return
Windows == {1, 2}

\* -shift_numbers on the command line: the default (0,), no value at all,
\* one shift, several shifts
ShiftTuples == { <<0>>, <<>>, <<1>>, <<1, -1>> }

\* -num_samples on the command line
NumSamples == {5, DefaultNumSamples}

VARIABLES
    pc,                  \* position of the process
    runs,                \* number of processes started so far
    \* ---- on disk
    study,               \* trials of <database_name>_study, trial number n at n+1
    gz_file,             \* <database_name>.gz
    csv_file,            \* fake_data_<database_name>.csv
    performance,         \* performance_<database_name>.txt: "absent", "open", "closed"
    \* ---- arguments and locals of run_TimeGAN
    num_samples, n_trials, shift_numbers, columns, features,
    \* ---- optuna's optimize loop
    first_trial,         \* number of trials the study held when optimize began
    i_trial,             \* trials started by this optimize call
    stop_flag,           \* set by study.stop()
    trial_number,        \* trial.number of the running trial
    \* ---- locals of objective / of the final step of run_TimeGAN
    hp,                  \* module, hidden_dim, batch_size, num_layer, iterations, seq_len
    parameters, data, generated_data, fake_data, scores,
    \* ---- module globals
    best_scores, objective_seq_len, objective_parameters

disk == <<study, gz_file, csv_file, performance>>
args == <<num_samples, n_trials, shift_numbers, columns, features>>
loop == <<first_trial, i_trial, stop_flag, trial_number>>
locals == <<hp, parameters, data, generated_data, fake_data, scores>>
globals == <<best_scores, objective_seq_len, objective_parameters>>
vars == <<pc, runs, disk, args, loop, locals, globals>>

\* ------------------------------------------------- external functions
\* cut_data(dataset, seq_len): w windows of seq_len rows of f features;
\* the element at window i, row j, feature c is tagged with where it is
CutData(src, seq_len, w, f) ==
    [i \in 1..w |-> [j \in 1..seq_len |-> [c \in 1..f |-> <<src, i, j, c>>]]]

\* timegan(data, parameters): a synthetic array of the same shape
Timegan(d, p) ==
    [i \in DOMAIN d |-> [j \in DOMAIN d[i] |->
        [c \in DOMAIN d[i][j] |-> <<"fake", i, j, c>>]]]

\* preprocess_data appends one shifted copy per shift, none for (0,)
ShiftedColumns(sh) == IF sh = <<0>> THEN 0 ELSE Len(sh)

\* ------------------------------------------------- postprocess_data
\* Python a[:stop] on a sequence of length n
PySliceStop(n, stop) ==
    IF stop < 0 THEN (IF n + stop < 0 THEN 0 ELSE n + stop)
    ELSE (IF stop < n THEN stop ELSE n)

\* lines 33-34
DeleteShifted(gd, sh) ==
    IF sh # <<0>>
    THEN [i \in DOMAIN gd |-> [j \in DOMAIN gd[i] |->
            SubSeq(gd[i][j], 1, PySliceStop(Len(gd[i][j]), Len(sh) * (-1)))]]
    ELSE gd

\* lines 37-40
RECURSIVE ConditionedDataset(_)
ConditionedDataset(gd) ==
    IF gd = <<>> THEN <<>> ELSE Head(gd) \o ConditionedDataset(Tail(gd))

\* line 43: pandas refuses rows whose width is not the number of columns
DataFrame(rows, cols) ==
    IF rows # <<>> /\ \E r \in DOMAIN rows : Len(rows[r]) # Len(cols)
    THEN [error |-> TRUE, columns |-> cols, rows |-> <<>>]
    ELSE [error |-> FALSE, columns |-> cols, rows |-> rows]

PostprocessData(gd, cols, sh) ==
    DataFrame(ConditionedDataset(DeleteShifted(gd, sh)), cols)

\* ------------------------------------------------------------- state
Init ==
    /\ pc = "main"
    /\ runs = 1
    /\ study = <<>>
    /\ gz_file = <<>>
    /\ csv_file = <<>>
    /\ performance = "absent"
    /\ num_samples = 0 /\ n_trials = 0 /\ shift_numbers = <<>>
    /\ columns = <<>> /\ features = 0
    /\ first_trial = 0 /\ i_trial = 0 /\ stop_flag = FALSE /\ trial_number = 0
    /\ hp = <<>> /\ parameters = <<>> /\ data = <<>>
    /\ generated_data = <<>> /\ fake_data = <<>> /\ scores = <<>>
    /\ best_scores = 0
    /\ objective_seq_len = <<>>
    /\ objective_parameters = <<>>

\* the trials of the study that are COMPLETE
Complete(st) == {n \in DOMAIN st : st[n].state = "COMPLETE"}

\* the trials this process has run to completion: [number, params, value]
Executed ==
    { [number |-> n - 1, params |-> study[n].params, value |-> study[n].value] :
        n \in {m \in Complete(study) : m > first_trial} }

\* ------------------------------------------------------- run_TimeGAN
\* __main__ and run_TimeGAN up to create_study (lines 164-180, 112-128):
\* the arguments are parsed, the data is loaded and preprocessed, the study
\* is created or, with load_if_exists, reopened with the trials it holds
RunTimeGAN(ns, n, sh) ==
    /\ pc = "main"
    /\ num_samples' = ns
    /\ n_trials' = n
    /\ shift_numbers' = sh
    /\ columns' = [c \in 1..MaxColumns |-> c]
    /\ features' = MaxColumns + ShiftedColumns(sh)
    /\ first_trial' = Len(study)
    /\ i_trial' = 0
    /\ stop_flag' = FALSE
    /\ pc' = "optimize"
    /\ UNCHANGED <<runs, disk, trial_number, locals, globals>>

\* study.optimize (line 129), optuna's sequential loop: it ends when the
\* stop flag is set or n_trials trials were started; otherwise the next trial
\* is created with the next free number and objective is called on it
Optimize ==
    /\ pc = "optimize"
    /\ IF stop_flag \/ i_trial >= n_trials
       THEN /\ pc' = "performance"
            /\ UNCHANGED <<study, i_trial, trial_number>>
       ELSE /\ trial_number' = Len(study)
            /\ study' = Append(study, [state |-> "RUNNING", params |-> <<>>, value |-> <<>>])
            /\ i_trial' = i_trial + 1
            /\ pc' = "objective"
    /\ UNCHANGED <<runs, gz_file, csv_file, performance, args, first_trial,
                   stop_flag, locals, globals>>

\* --------------------------------------------------------- objective
\* lines 66-67
ObjectiveStop ==
    /\ pc = "objective"
    /\ stop_flag' = IF trial_number = StopTrial THEN TRUE ELSE stop_flag
    /\ pc' = "suggest"
    /\ UNCHANGED <<runs, disk, args, first_trial, i_trial, trial_number, locals, globals>>

\* lines 70-75: the sampler's answers; the study records them with the trial
ObjectiveSuggest(p) ==
    /\ pc = "suggest"
    /\ hp' = <<p>>
    /\ study' = [study EXCEPT ![trial_number + 1].params = <<p>>]
    /\ pc' = "cut"
    /\ UNCHANGED <<runs, gz_file, csv_file, performance, args, loop,
                   parameters, data, generated_data, fake_data, scores, globals>>

\* line 78
ObjectiveCut(w) ==
    /\ pc = "cut"
    /\ data' = <<CutData("dataset_train", hp[1].seq_len, w, features)>>
    /\ pc' = "parameters"
    /\ UNCHANGED <<runs, disk, args, loop, hp, parameters, generated_data,
                   fake_data, scores, globals>>

\* SetParameters with seq_len and batch_size written to each other's key
SetParametersSwapped(module, hidden_dim, batch_size, num_layer, iterations, seq_len) ==
    [module |-> module, hidden_dim |-> hidden_dim, num_layer |-> num_layer,
     iterations |-> iterations, batch_size |-> seq_len, seq_len |-> batch_size]

\* lines 81-87
SetParameters(module, hidden_dim, batch_size, num_layer, iterations, seq_len) ==
    [module |-> module, hidden_dim |-> hidden_dim, num_layer |-> num_layer,
     iterations |-> iterations, batch_size |-> batch_size, seq_len |-> seq_len]

ObjectiveParameters ==
    /\ pc = "parameters"
    /\ parameters' = <<SetParameters(hp[1].module, hp[1].hidden_dim, hp[1].batch_size,
                                     hp[1].num_layer, hp[1].iterations, hp[1].seq_len)>>
    /\ pc' = "timegan"
    /\ UNCHANGED <<runs, disk, args, loop, hp, data, generated_data, fake_data,
                   scores, globals>>

\* lines 90-93
ObjectiveTimegan ==
    /\ pc = "timegan"
    /\ generated_data' = <<Timegan(data[1], parameters[1])>>
    /\ pc' = "postprocess"
    /\ UNCHANGED <<runs, disk, args, loop, hp, parameters, data, fake_data,
                   scores, globals>>

\* ObjectivePostprocess with the save-best block reached without scoring
ObjectivePostprocessUnscored ==
    /\ pc = "postprocess"
    /\ fake_data' = <<PostprocessData(generated_data[1], columns, shift_numbers)>>
    /\ pc' = "save"
    /\ UNCHANGED <<runs, disk, args, loop, hp, parameters, data, generated_data,
                   scores, globals>>

\* line 96; an exception of the objective marks the trial FAIL and ends
\* study.optimize and the process with it
ObjectivePostprocess ==
    /\ pc = "postprocess"
    /\ LET df == PostprocessData(generated_data[1], columns, shift_numbers) IN
       IF df.error
       THEN /\ pc' = "failed"
            /\ study' = [study EXCEPT ![trial_number + 1].state = "FAIL"]
            /\ UNCHANGED fake_data
       ELSE /\ pc' = "evaluate"
            /\ fake_data' = <<df>>
            /\ UNCHANGED study
    /\ UNCHANGED <<runs, gz_file, csv_file, performance, args, loop, hp,
                   parameters, data, generated_data, scores, globals>>

\* line 99
ObjectiveEvaluate(s) ==
    /\ pc = "evaluate"
    /\ scores' = <<s>>
    /\ pc' = "save"
    /\ UNCHANGED <<runs, disk, args, loop, hp, parameters, data, generated_data,
                   fake_data, globals>>

\* ObjectiveSave with "scores >= best_scores"
ObjectiveSaveGe ==
    /\ pc = "save"
    /\ IF scores[1] >= best_scores
       THEN /\ gz_file' = <<[content |-> "timegan", trial |-> trial_number]>>
            /\ objective_seq_len' = <<hp[1].seq_len>>
            /\ objective_parameters' = parameters
            /\ best_scores' = scores[1]
       ELSE UNCHANGED <<gz_file, globals>>
    /\ study' = [study EXCEPT ![trial_number + 1].state = "COMPLETE",
                              ![trial_number + 1].value = scores]
    /\ hp' = <<>> /\ parameters' = <<>> /\ data' = <<>>
    /\ generated_data' = <<>> /\ fake_data' = <<>> /\ scores' = <<>>
    /\ pc' = "optimize"
    /\ UNCHANGED <<runs, csv_file, performance, args, loop>>

\* lines 101-109: save best model, return the score; the study records the
\* value and the trial is COMPLETE; the locals of objective are gone
ObjectiveSave ==
    /\ pc = "save"
    /\ IF scores[1] > best_scores
       THEN /\ gz_file' = <<[content |-> "timegan", trial |-> trial_number]>>
            /\ objective_seq_len' = <<hp[1].seq_len>>
            /\ objective_parameters' = parameters
            /\ best_scores' = scores[1]
       ELSE UNCHANGED <<gz_file, globals>>
    /\ study' = [study EXCEPT ![trial_number + 1].state = "COMPLETE",
                              ![trial_number + 1].value = scores]
    /\ hp' = <<>> /\ parameters' = <<>> /\ data' = <<>>
    /\ generated_data' = <<>> /\ fake_data' = <<>> /\ scores' = <<>>
    /\ pc' = "optimize"
    /\ UNCHANGED <<runs, csv_file, performance, args, loop>>

\* ------------------------------------------- run_TimeGAN, after the loop
\* lines 131-148: study.best_params raises when the study holds no
\* COMPLETE trial
SavePerformance ==
    /\ pc = "performance"
    /\ performance' = "open"
    /\ pc' = IF Complete(study) = {} THEN "failed" ELSE "load"
    /\ UNCHANGED <<runs, study, gz_file, csv_file, args, loop, locals, globals>>

\* line 151: joblib.load raises when the file is absent
GenerateLoad ==
    /\ pc = "load"
    /\ pc' = IF gz_file = <<>> THEN "failed" ELSE "gen_cut"
    /\ UNCHANGED <<runs, disk, args, loop, locals, globals>>

\* GenerateCut windowing the training split instead of the full dataset
GenerateCutTrain(w) ==
    /\ pc = "gen_cut"
    /\ IF objective_seq_len = <<>>
       THEN /\ pc' = "failed"
            /\ UNCHANGED data
       ELSE /\ data' = <<CutData("dataset_train", objective_seq_len[1], w, features)>>
            /\ pc' = "gen_timegan"
    /\ UNCHANGED <<runs, disk, args, loop, hp, parameters, generated_data,
                   fake_data, scores, globals>>

\* line 152: objective.seq_len raises AttributeError when it was never set
GenerateCut(w) ==
    /\ pc = "gen_cut"
    /\ IF objective_seq_len = <<>>
       THEN /\ pc' = "failed"
            /\ UNCHANGED data
       ELSE /\ data' = <<CutData("dataset", objective_seq_len[1], w, features)>>
            /\ pc' = "gen_timegan"
    /\ UNCHANGED <<runs, disk, args, loop, hp, parameters, generated_data,
                   fake_data, scores, globals>>

\* lines 153-156
GenerateTimegan ==
    /\ pc = "gen_timegan"
    /\ generated_data' = <<Timegan(data[1], objective_parameters[1])>>
    /\ performance' = "closed"
    /\ pc' = "gen_postprocess"
    /\ UNCHANGED <<runs, study, gz_file, csv_file, args, loop, hp, parameters,
                   data, fake_data, scores, globals>>

\* line 159
GeneratePostprocess ==
    /\ pc = "gen_postprocess"
    /\ LET df == PostprocessData(generated_data[1], columns, shift_numbers) IN
       IF df.error
       THEN /\ pc' = "failed"
            /\ UNCHANGED fake_data
       ELSE /\ pc' = "to_csv"
            /\ fake_data' = <<df>>
    /\ UNCHANGED <<runs, disk, args, loop, hp, parameters, data, generated_data,
                   scores, globals>>

\* line 161
ToCsv ==
    /\ pc = "to_csv"
    /\ csv_file' = fake_data
    /\ pc' = "done"
    /\ UNCHANGED <<runs, study, gz_file, performance, args, loop, locals, globals>>

\* the script is started again on the same database_name: a new process,
\* with the module globals as the module sets them (line 51) and the files
\* as the earlier processes left them
NewProcess ==
    /\ pc \in {"done", "failed"}
    /\ runs < MaxRuns
    /\ runs' = runs + 1
    /\ pc' = "main"
    /\ num_samples' = 0 /\ n_trials' = 0 /\ shift_numbers' = <<>>
    /\ columns' = <<>> /\ features' = 0
    /\ first_trial' = 0 /\ i_trial' = 0 /\ stop_flag' = FALSE /\ trial_number' = 0
    /\ hp' = <<>> /\ parameters' = <<>> /\ data' = <<>>
    /\ generated_data' = <<>> /\ fake_data' = <<>> /\ scores' = <<>>
    /\ best_scores' = 0
    /\ objective_seq_len' = <<>>
    /\ objective_parameters' = <<>>
    /\ UNCHANGED disk

\* ------------------------------------------------------ specifications
\* one process, every input
Next ==
    \/ \E ns \in NumSamples, n \in 0..MaxTrials, sh \in ShiftTuples : RunTimeGAN(ns, n, sh)
    \/ Optimize
    \/ ObjectiveStop
    \/ \E p \in Suggestions : ObjectiveSuggest(p)
    \/ \E w \in Windows : ObjectiveCut(w)
    \/ ObjectiveParameters
    \/ ObjectiveTimegan
    \/ ObjectivePostprocess
    \/ \E s \in Scores : ObjectiveEvaluate(s)
    \/ ObjectiveSave
    \/ SavePerformance
    \/ GenerateLoad
    \/ \E w \in Windows : GenerateCut(w)
    \/ GenerateTimegan
    \/ GeneratePostprocess
    \/ ToCsv

Spec == Init /\ [][Next]_vars

\* MaxRuns processes one after the other on one database_name, with the
\* default arguments but for n_trials; the sampler, cut_data and the scorer
\* answer the same in every trial
ResumeSuggestion ==
    [module |-> "gru", hidden_dim |-> 6, batch_size |-> 2, num_layer |-> 3,
     iterations |-> 100, seq_len |-> 1]

NextResume ==
    \/ \E n \in {DefaultNTrials, StopTrial + 1} : RunTimeGAN(DefaultNumSamples, n, <<0>>)
    \/ Optimize
    \/ ObjectiveStop
    \/ ObjectiveSuggest(ResumeSuggestion)
    \/ ObjectiveCut(1)
    \/ ObjectiveParameters
    \/ ObjectiveTimegan
    \/ ObjectivePostprocess
    \/ ObjectiveEvaluate(MaxScore)
    \/ ObjectiveSave
    \/ SavePerformance
    \/ GenerateLoad
    \/ GenerateCut(1)
    \/ GenerateTimegan
    \/ GeneratePostprocess
    \/ ToCsv
    \/ NewProcess

SpecResume == Init /\ [][NextResume]_vars

\* ------------------------------------------------------------ claims
\* the trials of this run with the highest score
BestTrials == {t \in Executed : \A u \in Executed : u.value[1] <= t.value[1]}

\* d is what cut_data makes of src with sequence length sl
WindowedWith(d, src, sl) ==
    /\ d # <<>>
    /\ d = <<CutData(src, sl, Len(d[1]), features)>>

\* the positions of run_TimeGAN's final generation step (lines 150-161)
GenerationPcs == {"load", "gen_cut", "gen_timegan", "gen_postprocess", "to_csv", "done"}

\* the positions inside objective, in the order of the source
TrialPcs == <<"objective", "suggest", "cut", "parameters", "timegan",
              "postprocess", "evaluate", "save">>

\* C1: whenever this run has completed trials, the retained
\* objective.parameters and objective.seq_len and the checkpoint last
\* written are those of a trial of this run with a maximal score.
C1_KeepTheBest ==
    (pc = "optimize" /\ Executed # {}) =>
        /\ gz_file # <<>>
        /\ \E t \in BestTrials :
              /\ objective_parameters = t.params
              /\ objective_seq_len = <<t.params[1].seq_len>>
              /\ gz_file[1].trial = t.number

\* C2: the final generation step starts only after the optimization loop has
\* ended; its trainer call gets the parameter set retained from a
\* best-scoring trial of the run and the full dataset windowed with that
\* trial's seq_len (objective.seq_len = objective.parameters['seq_len']);
\* the table written to the csv file is the postprocessed output of the call.
C2_FinalGeneration ==
    /\ pc \in GenerationPcs =>
          /\ stop_flag \/ i_trial >= n_trials
          /\ \A n \in DOMAIN study : study[n].state # "RUNNING"
    /\ pc \in {"gen_timegan", "gen_postprocess", "to_csv", "done"} =>
          /\ objective_parameters # <<>>
          /\ objective_seq_len = <<objective_parameters[1].seq_len>>
          /\ \E t \in BestTrials : t.params = objective_parameters
          /\ WindowedWith(data, "dataset", objective_parameters[1].seq_len)
    /\ pc \in {"gen_postprocess", "to_csv", "done"} =>
          generated_data = <<Timegan(data[1], objective_parameters[1])>>
    /\ pc \in {"to_csv", "done"} =>
          fake_data = <<PostprocessData(generated_data[1], columns, shift_numbers)>>
    /\ pc = "done" => csv_file = fake_data /\ ~csv_file[1].error

\* a run of two trials whose second trial was the better one has written
\* the csv file
C2_Witness ==
    /\ pc = "done"
    /\ Cardinality(Executed) = 2
    /\ gz_file[1].trial = 1
    /\ study[1].params # study[2].params
    /\ csv_file # <<>>

\* C3, the states: at every position of a trial the results of the earlier
\* steps exist and those of the later steps do not; the checkpoint decision
\* is reached only with the trial's score; while a trial is running it is
\* the last trial of the study and the only one RUNNING.
C3_OrderInv ==
    /\ pc \in {"objective", "suggest"} => hp = <<>> /\ data = <<>>
    /\ pc = "cut" => hp # <<>> /\ data = <<>> /\ parameters = <<>>
    /\ pc \in {"parameters", "timegan"} =>
          WindowedWith(data, "dataset_train", hp[1].seq_len) /\ generated_data = <<>>
    /\ pc = "timegan" => parameters # <<>>
    /\ pc = "postprocess" => generated_data # <<>> /\ fake_data = <<>> /\ scores = <<>>
    /\ pc = "evaluate" => fake_data # <<>> /\ scores = <<>>
    /\ pc = "save" => scores # <<>> /\ fake_data # <<>>
    /\ pc \in Range(TrialPcs) =>
          /\ trial_number + 1 = Len(study)
          /\ \A n \in DOMAIN study : study[n].state = "RUNNING" <=> n = Len(study)

\* C3, the steps: a trial moves from each position to the next one of the
\* source (or fails in postprocessing); best_scores, objective's attributes
\* and the checkpoint change only in the step that leaves "save"; a trial is
\* added to the study only when no trial is running.
C3_OrderStep ==
    /\ \A k \in 1..(Len(TrialPcs) - 1) :
          pc = TrialPcs[k] =>
             pc' \in {TrialPcs[k + 1]} \cup (IF pc = "postprocess" THEN {"failed"} ELSE {})
    /\ pc = "save" => pc' = "optimize"
    /\ pc' = "objective" => pc = "optimize"
    /\ <<gz_file, globals>>' # <<gz_file, globals>> => pc = "save" /\ scores # <<>>
    /\ Len(study') > Len(study) =>
          /\ \A n \in DOMAIN study : study[n].state # "RUNNING"
          /\ locals = <<<<>>, <<>>, <<>>, <<>>, <<>>, <<>>>>

\* C3: within every trial the steps happen in the order suggestion, data
\* reshaping, training/generation, scoring, checkpointing; the checkpoint
\* decision is never taken before the trial's score exists; the trials of a
\* run do not interleave.
C3_TrialOrder == []C3_OrderInv /\ [][C3_OrderStep]_vars

\* the second trial of a run is at its suggestion after the first trial
\* wrote the checkpoint
C3_Witness ==
    /\ pc = "suggest"
    /\ i_trial = 2
    /\ gz_file # <<>> /\ gz_file[1].trial = 0
    /\ study[1].state = "COMPLETE"

\* C4: in a study persisted in the database and reopened with
\* load_if_exists no trial with a number greater than 60 is ever executed.
C4_EarlyStopping ==
    \A n \in DOMAIN study : n - 1 <= StopTrial

\* the parameter set p lies in the domains of lines 70-75
InDomains(p) ==
    /\ p.module \in Range(Modules)
    /\ p.hidden_dim \in Range(HiddenDims)
    /\ p.batch_size \in Range(BatchSizes)
    /\ p.num_layer \in NumLayers
    /\ p.iterations \in Range(Iterations)
    /\ p.seq_len \in Range(SeqLens)

\* C5: every parameter set handed to the trainer, in a trial (pc "timegan")
\* and in the final generation step (pc "gen_timegan"), lies in the domains
\* and comes with data that cut_data windowed with parameters['seq_len'].
C5_TrainerArguments ==
    /\ pc = "timegan" =>
          /\ parameters # <<>>
          /\ InDomains(parameters[1])
          /\ WindowedWith(data, "dataset_train", parameters[1].seq_len)
    /\ pc = "gen_timegan" =>
          /\ objective_parameters # <<>>
          /\ InDomains(objective_parameters[1])
          /\ WindowedWith(data, "dataset", objective_parameters[1].seq_len)

\* the final step is about to call the trainer with a seq_len of 10 retained
\* from the second trial
C5_Witness ==
    /\ pc = "gen_timegan"
    /\ objective_parameters # <<>>
    /\ objective_parameters[1].seq_len = 10
    /\ objective_parameters[1].module = "lstmLN"
    /\ gz_file[1].trial = 1

\* C6: the fake table scored in a trial and the table written to the csv
\* file have exactly num_samples rows.
C6_NumSamplesRows ==
    /\ (pc \in {"evaluate", "save"} /\ fake_data # <<>>) =>
          Len(fake_data[1].rows) = num_samples
    /\ (pc = "done" /\ csv_file # <<>>) => Len(csv_file[1].rows) = num_samples

\* the rows C7 describes for the generated array gd and the shifts sh
ClaimedRows(gd, sh) ==
    LET W == Len(gd)
        L == IF W = 0 THEN 0 ELSE Len(gd[1])
        k == IF sh = <<0>> THEN 0 ELSE Len(sh)
    IN [r \in 1..(W * L) |->
          LET row == gd[((r - 1) \div L) + 1][((r - 1) % L) + 1]
          IN SubSeq(row, 1, Len(row) - k)]

\* C7: once postprocess_data has acted on a generated array of shape
\* (W, L, F), its result has W*L rows in window-major order and keeps the
\* leading F - k feature columns, k = 0 for (0,) and len(shift_numbers)
\* otherwise, the empty tuple included.
C7_Postprocess ==
    (generated_data # <<>> /\ pc \notin {"postprocess", "gen_postprocess"}) =>
        /\ fake_data # <<>>
        /\ fake_data[1].rows = ClaimedRows(generated_data[1], shift_numbers)

\* C8, the states: best_scores is the maximum of 0 and the scores of the
\* trials this run has completed.
C8_BestInv ==
    best_scores = Max({0} \cup {t.value[1] : t \in Executed})

\* C8, the steps: best_scores never decreases; a trial whose score is not
\* strictly greater leaves best_scores, objective.parameters,
\* objective.seq_len and the checkpoint unchanged; a strictly greater score
\* updates all four; no other step touches them.
C8_BestStep ==
    /\ best_scores' >= best_scores
    /\ pc = "save" =>
          IF scores[1] > best_scores
          THEN /\ best_scores' = scores[1]
               /\ objective_parameters' = parameters
               /\ objective_seq_len' = <<parameters[1].seq_len>>
               /\ gz_file' # <<>> /\ gz_file'[1].trial = trial_number
          ELSE UNCHANGED <<best_scores, objective_parameters, objective_seq_len, gz_file>>
    /\ pc # "save" =>
          UNCHANGED <<best_scores, objective_parameters, objective_seq_len, gz_file>>

\* C8: best_scores equals the maximum of 0 and all scores of the trials
\* completed so far in the run and never decreases; only a strictly greater
\* score updates best_scores, objective.parameters, objective.seq_len and
\* the checkpoint, and it updates them together.
C8_BestScores == []C8_BestInv /\ [][C8_BestStep]_vars

\* both trials of a run improved on best_scores, the second over a positive
\* value
C8_Witness ==
    /\ pc = "optimize"
    /\ Len(study) = 2
    /\ study[1].value = <<1>>
    /\ study[2].value = <<2>>
    /\ best_scores = 2
    /\ gz_file[1].trial = 1

\* C9: whenever run_TimeGAN reaches its final generation step after
\* n_trials >= 1, this run has written the checkpoint and objective.seq_len
\* and objective.parameters are defined.
C9_BestModelExists ==
    (pc = "load" /\ n_trials >= 1) =>
        /\ gz_file # <<>>
        /\ gz_file[1].trial >= first_trial
        /\ objective_seq_len # <<>>
        /\ objective_parameters # <<>>

====
